---- MODULE Spec2Model ----
(***************************************************************************)
(* libtransmission/tr-buffer.h: BufferReader / BufferWriter and their two  *)
(* implementations, Buffer (a libevent evbuffer) and SmallBuffer<N> (an    *)
(* sfl::small_vector plus a committed-size counter).                       *)
(*                                                                         *)
(* A Buffer and a SmallBuffer<N> are driven side by side by the same       *)
(* operations.  Memory is modelled cell by cell: a cell holds a byte       *)
(* 0..255, or Junk when its content is indeterminate (never initialised,   *)
(* or the element that lived there has been destroyed).                    *)
(***************************************************************************)
EXTENDS Integers, Sequences, FiniteSets

\* ------------------------------------------------------------------ bounds

\* Raw writes (add / push_back / reserve+commit) keep size() <= MaxLen, and
\* the scalar encoders are applied while size() < MaxLen.
MaxLen == 2
\* SmallBuffer<N> is instantiated for N in 1..MaxN.
MaxN == 2

\* How many bytes more than asked for a fresh evbuffer chain may hold.
Slack == {0, 1}

\* The bytes raw writes and sockets carry (both non-zero, so that a byte a
\* resize value-initialised can never pass for one that was written).
RawBytes == {1, 200}
\* Host values handed to add_uintW, as base-256 digits, most significant first.
Vals8 == {<<200>>}
Vals16 == {<<1, 200>>, <<200, 0>>}
Vals32 == {<<0, 0, 1, 200>>, <<200, 0, 0, 1>>}
Vals64 == {<<0, 0, 0, 0, 0, 0, 1, 200>>, <<200, 1, 0, 0, 0, 0, 0, 1>>}
\* The byte orders a build's host can have.
HostOrders == {"little", "big"}

\* ------------------------------------------------------------------ cells

\* Indeterminate storage: uninitialised, or left behind by a destroyed element.
Junk == -1

Min(a, b) == IF a < b THEN a ELSE b
Max(a, b) == IF a > b THEN a ELSE b

JunkCells(n) == [i \in 1..n |-> Junk]
ZeroCells(n) == [i \in 1..n |-> 0]
Take(s, n) == SubSeq(s, 1, Min(n, Len(s)))
Drop(s, n) == SubSeq(s, Min(n, Len(s)) + 1, Len(s))
Reverse(s) == [i \in 1..Len(s) |-> s[Len(s) + 1 - i]]
\* std::copy_n(src, Len(src), mem + off): cells off+1 .. off+Len(src) of mem.
CopyInto(mem, off, src) ==
    [i \in 1..Len(mem) |->
        IF i > off /\ i <= off + Len(src) THEN src[i - off] ELSE mem[i]]

SeqsUpTo(S, n) == UNION {[1..m -> S] : m \in 0..n}

\* ------------------------------------------------- host integers and byte order

\* A W-bit host integer is kept as its W/8 base-256 digits, most significant
\* first (64-bit values do not fit TLC's integers).  HostMem is the
\* object representation a memcpy of the integer reads on a host of the given
\* byte order, HostVal the integer a memcpy into it produces.
HostMem(host, v) == IF host = "little" THEN Reverse(v) ELSE v
HostVal(host, mem) == IF host = "little" THEN Reverse(mem) ELSE mem
\* The byte swap behind htons / htonl on a little-endian host.
bswap(v) == Reverse(v)
htons(host, hs) == IF host = "little" THEN bswap(hs) ELSE hs
ntohs(host, ns) == IF host = "little" THEN bswap(ns) ELSE ns
htonl(host, hl) == IF host = "little" THEN bswap(hl) ELSE hl
ntohl(host, nl) == IF host = "little" THEN bswap(nl) ELSE nl
\* utils.h (not part of the sources at hand): host <-> network order, 64 bit.
tr_htonll(host, hll) == IF host = "little" THEN bswap(hll) ELSE hll
tr_ntohll(host, nll) == IF host = "little" THEN bswap(nll) ELSE nll
\* net.h, tr_port::network(): the port number in network byte order.
tr_port_network(host, port) == htons(host, port)

\* The number a digit sequence stands for (used for values below 2^31).
RECURSIVE NumOf(_)
NumOf(v) == IF v = <<>> THEN 0 ELSE 256 * NumOf(SubSeq(v, 1, Len(v) - 1)) + v[Len(v)]
\* x >> bits, and byte i (0-based, from the most significant end) of a W-bit number:
\* (x >> (W - 8*(i+1))) mod 256.
RECURSIVE Shr(_, _)
Shr(x, bits) == IF bits = 0 THEN x ELSE Shr(x \div 2, bits - 1)
ShiftByte(x, W, i) == Shr(x, W - 8 * (i + 1)) % 256

\* A size_t (64 bit) as its 8 base-256 digits, most significant first, for
\* the numbers TLC can hold (n < 2^31).
SizeT(n) ==
    [i \in 1..8 |->
        CASE i <= 4 -> 0
          [] i = 5 -> n \div 16777216
          [] i = 6 -> (n \div 65536) % 256
          [] i = 7 -> (n \div 256) % 256
          [] OTHER -> n % 256]
\* a - b in size_t arithmetic, that is modulo 2^64: below zero the result is
\* 2^64 - (b - a), the complement of b - a - 1.
SizeSub(a, b) ==
    IF a >= b THEN SizeT(a - b)
    ELSE [i \in 1..8 |-> 255 - SizeT(b - a - 1)[i]]

\* ------------------------------------------------------- libevent's evbuffer
\* An evbuffer is its committed bytes (data) and the free cells that follow
\* them in its last chain (tail).

evbuffer_new == [data |-> <<>>, tail |-> <<>>]

evbuffer_get_length(b) == Len(b.data)

\* A faulty variant: a drain that gives up when asked for more than there is.
evbuffer_drain_strict(b, len) ==
    IF len > Len(b.data) THEN b
    ELSE IF len = Len(b.data) THEN evbuffer_new
    ELSE [b EXCEPT !.data = Drop(@, len)]

\* Removes len bytes from the front; len >= length frees every chain.
evbuffer_drain(b, len) ==
    IF len >= Len(b.data) THEN evbuffer_new
    ELSE [b EXCEPT !.data = Drop(@, len)]

\* evbuffer_pullup(buf, -1): the content as one contiguous region.
evbuffer_pullup(b) == b.data

\* The buffer evbuffer_pullup(buf, -1) leaves behind.  Content that already
\* sits in one chain stays where it is; content spread over chains is moved
\* into one chain (pull.moved), with pull.slack free bytes behind it, and
\* the chains it came from, free space included, are released.
evbuffer_pullup_buf(b, pull) ==
    IF pull.moved /\ b.data # <<>>
    THEN [data |-> b.data, tail |-> JunkCells(pull.slack)]
    ELSE b

\* Makes the last chain hold at least datlen free bytes.  When it does not
\* (or there is no chain yet) a chain with datlen + slack free bytes takes
\* over; what was written past the committed bytes before is not carried over.
evbuffer_expand(b, datlen, slack) ==
    IF Len(b.tail) >= datlen /\ ~(b.data = <<>> /\ b.tail = <<>>) THEN b
    ELSE [b EXCEPT !.tail = JunkCells(datlen + slack)]

\* evbuffer_expand(buf, datlen) for a datlen of full size_t width.  A datlen
\* above EVBUFFER_CHAIN_MAX (2^63 - 1) is refused and the buffer stays as it
\* is, as does one no allocation can serve (2^31 and above).
evbuffer_expand_sz(b, datlen, slack) ==
    IF \E i \in 1..4 : datlen[i] # 0 THEN b
    ELSE IF datlen[5] >= 128 THEN b
    ELSE evbuffer_expand(b, NumOf(datlen), slack)

\* evbuffer_reserve_space(buf, size, &iov, 1): iov_base is the start of the
\* tail, iov_len the whole free space of the last chain.
evbuffer_reserve_space(b, size, slack) ==
    LET e == evbuffer_expand(b, size, slack)
    IN  [buf |-> e, iov_len |-> Len(e.tail)]

\* evbuffer_commit_space(buf, &iov, 1) with iov_base the start of the tail:
\* fails (and changes nothing) when iov_len exceeds the free space.
evbuffer_commit_space(b, iov_len) ==
    IF iov_len > Len(b.tail) THEN b
    ELSE [data |-> b.data \o Take(b.tail, iov_len), tail |-> Drop(b.tail, iov_len)]

\* The caller's stores through the pointer a reservation returned.
evbuffer_store(b, w) == [b EXCEPT !.tail = CopyInto(@, 0, w)]

\* A faulty variant: a write that leaves the written bytes in the buffer.
evbuffer_write_atmost_nodrain(b, howmuch, io) ==
    LET hm == IF howmuch < 0 \/ howmuch > Len(b.data) THEN Len(b.data) ELSE howmuch
        n  == IF hm = 0 \/ io.fail THEN -1 ELSE Min(hm, io.accept)
    IN  [buf  |-> b,
         res  |-> n,
         err  |-> IF hm > 0 /\ io.fail THEN io.code ELSE 0,
         sent |-> <<>>]

\* evbuffer_write_atmost(buf, fd, howmuch).  io is what the endpoint does with
\* the write: io.accept bytes taken (0 or more), or io.fail with io.code.
\* howmuch is clamped to the length; nothing is written for howmuch = 0 and
\* the result is then -1 with the socket error untouched; the bytes the
\* endpoint took are drained from the buffer.
evbuffer_write_atmost(b, howmuch, io) ==
    LET hm == IF howmuch < 0 \/ howmuch > Len(b.data) THEN Len(b.data) ELSE howmuch
        n  == IF hm = 0 \/ io.fail THEN -1 ELSE Min(hm, io.accept)
    IN  [buf  |-> IF n > 0 THEN evbuffer_drain(b, n) ELSE b,
         res  |-> n,
         err  |-> IF hm > 0 /\ io.fail THEN io.code ELSE 0,
         sent |-> IF n > 0 THEN Take(b.data, n) ELSE <<>>]

\* Platform numbers: errno values, and libevent's cap on one read.
Platform == [EAGAIN |-> 11, ECONNRESET |-> 104, ENOTCONN |-> 107, EPIPE |-> 32,
             EVBUFFER_MAX_READ |-> 4096]

\* evbuffer_read(buf, fd, howmuch).  ep is the endpoint: ep.state is "open"
\* (ep.rx are the bytes it has ready), "closed" (orderly close) or "failing"
\* (ep.code).  howmuch is cut to what is ready (to EVBUFFER_MAX_READ when
\* nothing is, or when it is negative); a read of 0 bytes returns 0, a read
\* from an open endpoint with nothing ready fails with EAGAIN.
evbuffer_read(b, howmuch, ep, slack) ==
    LET ready == IF ep.state = "open" THEN Len(ep.rx) ELSE 0
        n0 == IF ready <= 0 \/ ready > Platform.EVBUFFER_MAX_READ
              THEN Platform.EVBUFFER_MAX_READ ELSE ready
        hm == IF howmuch < 0 \/ howmuch > n0 THEN n0 ELSE howmuch
        n  == CASE ep.state = "failing" -> -1
                [] ep.state = "closed" -> 0
                [] hm = 0 -> 0
                [] ready = 0 -> -1
                [] OTHER -> Min(hm, ready)
        r  == IF n > 0 THEN evbuffer_reserve_space(b, n, slack).buf ELSE b
    IN  [buf |-> IF n > 0 THEN evbuffer_commit_space(evbuffer_store(r, Take(ep.rx, n)), n)
                 ELSE r,
         res |-> n,
         err |-> CASE ep.state = "failing" -> ep.code
                   [] n = -1 -> Platform.EAGAIN
                   [] OTHER -> 0]

\* -------------------------------------------------- sfl::small_vector<T, N>
\* A small_vector is its storage (mem, one cell per unit of capacity) and its
\* element count (size).  Elements are cells 1..size.

small_vector_new(n) == [mem |-> JunkCells(n), size |-> 0]

capacity(v) == Len(v.mem)

\* The capacity a reallocation for `more` further elements settles on.
calculate_new_capacity(v, n, more) ==
    IF v.size + more < capacity(v) + capacity(v) \div 2
    THEN Max(n, capacity(v) + capacity(v) \div 2)
    ELSE Max(n, v.size + more)

\* A faulty variant: a reallocation that does not carry the old elements over.
resize_lossy(v, n, n_inline) ==
    IF n <= v.size
    THEN [mem |-> CopyInto(v.mem, n, JunkCells(v.size - n)), size |-> n]
    ELSE IF n <= capacity(v)
    THEN [mem |-> CopyInto(v.mem, v.size, ZeroCells(n - v.size)), size |-> n]
    ELSE LET cap == calculate_new_capacity(v, n_inline, n - v.size)
         IN  [mem |-> ZeroCells(n) \o JunkCells(cap - n), size |-> n]

\* resize(n): shrinking destroys the elements past n; growing appends
\* value-initialised (zero) elements, in fresh storage that carries over the
\* old elements, and nothing else, when the capacity does not suffice.
resize(v, n, n_inline) ==
    IF n <= v.size
    THEN [mem |-> CopyInto(v.mem, n, JunkCells(v.size - n)), size |-> n]
    ELSE IF n <= capacity(v)
    THEN [mem |-> CopyInto(v.mem, v.size, ZeroCells(n - v.size)), size |-> n]
    ELSE LET cap == calculate_new_capacity(v, n_inline, n - v.size)
         IN  [mem |-> Take(v.mem, v.size) \o ZeroCells(n - v.size) \o JunkCells(cap - n),
              size |-> n]

\* A faulty variant: an erase that drops the count but moves nothing.
erase_front_nomove(v, n) == [mem |-> v.mem, size |-> v.size - n]

\* erase(begin(), begin() + n) for n <= size(): the elements behind move to
\* the front and the n cells they leave at the end are destroyed.
erase_front(v, n) ==
    [mem |-> SubSeq(v.mem, n + 1, v.size) \o JunkCells(n)
                 \o SubSeq(v.mem, v.size + 1, Len(v.mem)),
     size |-> v.size - n]

\* --------------------------------------------------------------- class Buffer

Buffer_new == [kind |-> "Buffer", buf_ |-> evbuffer_new]

Buffer_size(self) == evbuffer_get_length(self.buf_)

Buffer_drain(self, n_bytes) == [self EXCEPT !.buf_ = evbuffer_drain(@, n_bytes)]

Buffer_clear(self) == Buffer_drain(self, Buffer_size(self))

Buffer_data(self) == evbuffer_pullup(self.buf_)

\* The Buffer after a data() / pullup() call.
Buffer_data_buf(self, pull) == [self EXCEPT !.buf_ = evbuffer_pullup_buf(@, pull)]

\* pullup(): the contiguous region and size().
Buffer_pullup(self) == [ptr |-> evbuffer_pullup(self.buf_), len |-> Buffer_size(self)]

\* reserve_space(n_bytes): { iov_base, iov_len } of a one-vector reservation.
Buffer_reserve_space(self, n_bytes, slack) ==
    LET r == evbuffer_reserve_space(self.buf_, n_bytes, slack)
    IN  [self |-> [self EXCEPT !.buf_ = r.buf], len |-> r.iov_len]

\* A faulty variant: a commit of the whole reservation.
Buffer_commit_space_all(self, n_bytes, slack) ==
    LET r == evbuffer_reserve_space(self.buf_, n_bytes, slack)
    IN  [self EXCEPT !.buf_ = evbuffer_commit_space(r.buf, r.iov_len)]

\* commit_space(n_bytes): reserves n_bytes again to get at the tail, then
\* commits n_bytes of it.
Buffer_commit_space(self, n_bytes, slack) ==
    LET r == evbuffer_reserve_space(self.buf_, n_bytes, slack)
    IN  [self EXCEPT !.buf_ = evbuffer_commit_space(r.buf, n_bytes)]

Buffer_store(self, w) == [self EXCEPT !.buf_ = evbuffer_store(@, w)]

\* error.h: tr_error_set / tr_error_set_from_errno store the code.
tr_error_set(code) == [set |-> TRUE, code |-> code]
NoError == [set |-> FALSE, code |-> 0]

\* A faulty variant: a to_socket whose buffer forgets what the write did to it.
Buffer_to_socket_keep(self, n_bytes, io) ==
    LET w == evbuffer_write_atmost(self.buf_, n_bytes, io)
    IN  IF w.res >= 0
        THEN [self |-> self, ret |-> w.res, error |-> NoError, sent |-> w.sent]
        ELSE [self |-> self, ret |-> 0, error |-> tr_error_set(w.err), sent |-> w.sent]

\* to_socket(sockfd, n_bytes, &error)
Buffer_to_socket(self, n_bytes, io) ==
    LET w == evbuffer_write_atmost(self.buf_, n_bytes, io)
    IN  IF w.res >= 0
        THEN [self |-> [self EXCEPT !.buf_ = w.buf], ret |-> w.res,
              error |-> NoError, sent |-> w.sent]
        ELSE [self |-> [self EXCEPT !.buf_ = w.buf], ret |-> 0,
              error |-> tr_error_set(w.err), sent |-> w.sent]

\* static_cast<int>(n_bytes) for n_bytes = q * 2^32 + b * 2^31 + r, r < 2^31.
NarrowToInt(n) == IF n.b = 1 THEN n.r - 2147483647 - 1 ELSE n.r

\* A faulty variant: an add_socket that takes an orderly close for a read of 0 bytes.
Buffer_add_socket_noclose(self, n_bytes, ep, slack) ==
    LET rd == evbuffer_read(self.buf_, NarrowToInt(n_bytes), ep, slack)
        me == [self EXCEPT !.buf_ = rd.buf]
    IN  IF rd.res >= 0 THEN [self |-> me, ret |-> rd.res, error |-> NoError]
        ELSE [self |-> me, ret |-> 0, error |-> tr_error_set(rd.err)]

\* add_socket(sockfd, n_bytes, &error)
Buffer_add_socket(self, n_bytes, ep, slack) ==
    LET rd == evbuffer_read(self.buf_, NarrowToInt(n_bytes), ep, slack)
        me == [self EXCEPT !.buf_ = rd.buf]
    IN  IF rd.res > 0 THEN [self |-> me, ret |-> rd.res, error |-> NoError]
        ELSE IF rd.res = 0
        THEN [self |-> me, ret |-> 0, error |-> tr_error_set(Platform.ENOTCONN)]
        ELSE [self |-> me, ret |-> 0, error |-> tr_error_set(rd.err)]

\* ------------------------------------------------------- class SmallBuffer<N>

SmallBuffer_new(n) ==
    [kind |-> "SmallBuffer", N |-> n, buf_ |-> small_vector_new(n),
     committed_size_ |-> 0, halted |-> FALSE]

SmallBuffer_size(self) == self.committed_size_

SmallBuffer_data(self) == self.buf_.mem

\* A faulty variant: a drain that only lowers the count.
SmallBuffer_drain_noerase(self, n_bytes, ub) ==
    [self EXCEPT !.committed_size_ = @ - Min(n_bytes, SmallBuffer_size(self))]

\* drain(n_bytes).  Erasing past the vector's end is undefined: the build
\* either stops there (ub = "abort") or erases up to the end (ub = "clamp").
SmallBuffer_drain(self, n_bytes, ub) ==
    LET n == Min(n_bytes, SmallBuffer_size(self))
    IN  IF n <= self.buf_.size
        THEN [self EXCEPT !.buf_ = erase_front(@, n), !.committed_size_ = @ - n]
        ELSE IF ub = "abort" THEN [self EXCEPT !.halted = TRUE]
        ELSE [self EXCEPT !.buf_ = erase_front(@, self.buf_.size),
                          !.committed_size_ = @ - n]

\* A faulty variant: a reserve_space that reports the whole capacity as free.
SmallBuffer_reserve_space_whole(self, n_bytes) ==
    LET v == resize(self.buf_, self.committed_size_ + n_bytes, self.N)
    IN  [self |-> [self EXCEPT !.buf_ = v], len |-> capacity(v)]

\* reserve_space(n_bytes): the pointer is data() + committed_size_, the length
\* the capacity behind it.
SmallBuffer_reserve_space(self, n_bytes) ==
    LET v == resize(self.buf_, self.committed_size_ + n_bytes, self.N)
    IN  [self |-> [self EXCEPT !.buf_ = v], len |-> capacity(v) - self.committed_size_]

SmallBuffer_commit_space(self, n_bytes) ==
    [self EXCEPT !.committed_size_ = @ + n_bytes]

SmallBuffer_store(self, w) ==
    [self EXCEPT !.buf_.mem = CopyInto(@, self.committed_size_, w)]

\* ------------------------------------------- the virtual interface, by kind
\* slack and ub are the choices left to the allocator and to undefined
\* behaviour; an implementation that has no such choice ignores them.

size(self) ==
    IF self.kind = "Buffer" THEN Buffer_size(self) ELSE SmallBuffer_size(self)

data(self) ==
    IF self.kind = "Buffer" THEN Buffer_data(self) ELSE SmallBuffer_data(self)

drain(self, n_bytes, ub) ==
    IF self.kind = "Buffer" THEN Buffer_drain(self, n_bytes)
    ELSE SmallBuffer_drain(self, n_bytes, ub)

reserve_space(self, n_bytes, slack) ==
    IF self.kind = "Buffer" THEN Buffer_reserve_space(self, n_bytes, slack)
    ELSE SmallBuffer_reserve_space(self, n_bytes)

commit_space(self, n_bytes, slack) ==
    IF self.kind = "Buffer" THEN Buffer_commit_space(self, n_bytes, slack)
    ELSE SmallBuffer_commit_space(self, n_bytes)

\* The buffer after a data() call; a SmallBuffer's data() changes nothing.
data_buf(self, pull) ==
    IF self.kind = "Buffer" THEN Buffer_data_buf(self, pull) ELSE self

\* Stores of w through the pointer reserve_space returned.
store(self, w) ==
    IF self.kind = "Buffer" THEN Buffer_store(self, w) ELSE SmallBuffer_store(self, w)

\* ------------------------------------------------------- class BufferReader

empty(self) == size(self) = 0

\* The bytes [begin(), end()): the first size() cells of data().
Content(self) == Take(data(self), size(self))

to_string(self) == Take(data(self), size(self))

\* starts_with(needle): std::equal of the needle against data().
starts_with(self, needle) ==
    /\ Len(needle) <= size(self)
    /\ \A i \in 1..Len(needle) : needle[i] = data(self)[i]

\* A faulty variant: a to_buf that copies and leaves the bytes in the buffer.
to_buf_nodrain(self, tgt, n_bytes, ub) ==
    LET n == Min(n_bytes, size(self))
    IN  [self |-> self,
         tgt  |-> CopyInto(tgt, 0, Take(data(self), n)),
         ret  |-> n]

\* to_buf(tgt, n_bytes): tgt is the target's storage before the call.
to_buf(self, tgt, n_bytes, ub) ==
    LET n == Min(n_bytes, size(self))
    IN  [self |-> drain(self, n, ub),
         tgt  |-> CopyInto(tgt, 0, Take(data(self), n)),
         ret  |-> n]

to_uint8(self, host, ub) ==
    LET r == to_buf(self, ZeroCells(1), 1, ub)
    IN  [self |-> r.self, ret |-> HostVal(host, r.tgt)]

\* A faulty variant: a decoder whose tmp starts out uninitialised.
to_uint16_uninit(self, host, ub) ==
    LET r == to_buf(self, JunkCells(2), 2, ub)
    IN  [self |-> r.self, ret |-> ntohs(host, HostVal(host, r.tgt))]

to_uint16(self, host, ub) ==
    LET r == to_buf(self, HostMem(host, ZeroCells(2)), 2, ub)
    IN  [self |-> r.self, ret |-> ntohs(host, HostVal(host, r.tgt))]

\* A faulty variant: a decoder that forgets ntohl.
to_uint32_noswap(self, host, ub) ==
    LET r == to_buf(self, HostMem(host, ZeroCells(4)), 4, ub)
    IN  [self |-> r.self, ret |-> HostVal(host, r.tgt)]

to_uint32(self, host, ub) ==
    LET r == to_buf(self, HostMem(host, ZeroCells(4)), 4, ub)
    IN  [self |-> r.self, ret |-> ntohl(host, HostVal(host, r.tgt))]

to_uint64(self, host, ub) ==
    LET r == to_buf(self, HostMem(host, ZeroCells(8)), 8, ub)
    IN  [self |-> r.self, ret |-> tr_ntohll(host, HostVal(host, r.tgt))]

\* ------------------------------------------------------- class BufferWriter

\* add(span_begin, span_len): reserve, copy, commit.
add(self, span, slack) ==
    LET r == reserve_space(self, Len(span), slack)
    IN  commit_space(store(r.self, span), Len(span), slack)

push_back(self, ch, slack) == add(self, <<ch>>, slack)

add_uint8(self, host, uch, slack) == add(self, HostMem(host, uch), slack)

\* A faulty variant: an encoder that forgets htons.
add_uint16_noswap(self, host, hs, slack) == add(self, HostMem(host, hs), slack)

add_uint16(self, host, hs, slack) == add(self, HostMem(host, htons(host, hs)), slack)

add_uint32(self, host, hl, slack) == add(self, HostMem(host, htonl(host, hl)), slack)

add_uint64(self, host, hll, slack) == add(self, HostMem(host, tr_htonll(host, hll)), slack)

add_port(self, host, port, slack) == add(self, HostMem(host, tr_port_network(host, port)), slack)

\* ------------------------------------------------------------------- state

VARIABLES
    rig,    \* "socket": a Buffer on a socket; "pair": a Buffer and a
            \* SmallBuffer<N> given the same reader / writer calls
    host,   \* the host's byte order
    dyn,    \* the Buffer
    small,  \* the SmallBuffer<N>
    fifo,   \* the bytes committed so far, in order, less the bytes drained
    last    \* the call made last: its name, arguments and results

vars == <<rig, host, dyn, small, fifo, last>>

Paired == rig = "pair"

\* The allocator's choices that make a difference to a reservation of n bytes.
Slacks(n) ==
    IF \A s \in Slack : evbuffer_expand(dyn.buf_, n, s) = dyn.buf_ THEN {0} ELSE Slack

\* The outcomes of undefined behaviour that make a difference to drain(n).
UBs(n) ==
    IF SmallBuffer_drain(small, n, "abort") = SmallBuffer_drain(small, n, "clamp")
    THEN {"clamp"} ELSE {"abort", "clamp"}

Running == ~small.halted

\* A Buffer and a SmallBuffer<N>, both just constructed.
Start(r, hosts) ==
    /\ rig = r
    /\ host \in hosts
    /\ dyn = Buffer_new
    /\ \E n \in 1..MaxN : small = SmallBuffer_new(n)
    /\ fifo = <<>>
    /\ last = [op |-> "init"]

Init == Start("pair", {"little"})

\* reserve_space(n), stores of w through the returned pointer, commit_space(k).
TwoPhase(self, n, w, k, slack) ==
    commit_space(store(reserve_space(self, n, slack).self, w), k, slack)

\* A two-phase write that commits no more than it asked for.
ReserveCommit(n, w, k) ==
    /\ Running
    /\ size(dyn) + k <= MaxLen
    /\ k <= Len(w) /\ Len(w) <= n
    /\ \E slack \in Slacks(n) :
        /\ dyn' = TwoPhase(dyn, n, w, k, slack)
        /\ small' = IF Paired THEN TwoPhase(small, n, w, k, slack) ELSE small
    /\ last' = [op |-> "reserve_commit", n |-> n, w |-> w, k |-> k, at |-> size(dyn)]
    /\ fifo' = fifo \o Take(w, k)
    /\ UNCHANGED <<rig, host>>

Add(span) ==
    /\ Running
    /\ size(dyn) + Len(span) <= MaxLen
    /\ \E slack \in Slacks(Len(span)) :
        /\ dyn' = add(dyn, span, slack)
        /\ small' = IF Paired THEN add(small, span, slack) ELSE small
    /\ last' = [op |-> "add", w |-> span, at |-> size(dyn)]
    /\ fifo' = fifo \o span
    /\ UNCHANGED <<rig, host>>

PushBack(ch) ==
    /\ Running
    /\ size(dyn) + 1 <= MaxLen
    /\ \E slack \in Slacks(1) :
        /\ dyn' = push_back(dyn, ch, slack)
        /\ small' = IF Paired THEN push_back(small, ch, slack) ELSE small
    /\ last' = [op |-> "push_back", w |-> <<ch>>, at |-> size(dyn)]
    /\ fifo' = fifo \o <<ch>>
    /\ UNCHANGED <<rig, host>>

AddUint8(x) ==
    /\ Running
    /\ size(dyn) < MaxLen
    /\ \E slack \in Slacks(1) :
        /\ dyn' = add_uint8(dyn, host, x, slack)
        /\ small' = IF Paired THEN add_uint8(small, host, x, slack) ELSE small
    /\ last' = [op |-> "add_uint", W |-> 8, x |-> x, at |-> size(dyn)]
    /\ fifo' = fifo \o HostMem(host, x)
    /\ UNCHANGED <<rig, host>>

AddUint16(x) ==
    /\ Running
    /\ size(dyn) < MaxLen
    /\ \E slack \in Slacks(2) :
        /\ dyn' = add_uint16(dyn, host, x, slack)
        /\ small' = IF Paired THEN add_uint16(small, host, x, slack) ELSE small
    /\ last' = [op |-> "add_uint", W |-> 16, x |-> x, at |-> size(dyn)]
    /\ fifo' = fifo \o HostMem(host, htons(host, x))
    /\ UNCHANGED <<rig, host>>

AddUint32(x) ==
    /\ Running
    /\ size(dyn) < MaxLen
    /\ \E slack \in Slacks(4) :
        /\ dyn' = add_uint32(dyn, host, x, slack)
        /\ small' = IF Paired THEN add_uint32(small, host, x, slack) ELSE small
    /\ last' = [op |-> "add_uint", W |-> 32, x |-> x, at |-> size(dyn)]
    /\ fifo' = fifo \o HostMem(host, htonl(host, x))
    /\ UNCHANGED <<rig, host>>

AddUint64(x) ==
    /\ Running
    /\ size(dyn) < MaxLen
    /\ \E slack \in Slacks(8) :
        /\ dyn' = add_uint64(dyn, host, x, slack)
        /\ small' = IF Paired THEN add_uint64(small, host, x, slack) ELSE small
    /\ last' = [op |-> "add_uint", W |-> 64, x |-> x, at |-> size(dyn)]
    /\ fifo' = fifo \o HostMem(host, tr_htonll(host, x))
    /\ UNCHANGED <<rig, host>>

AddPort(port) ==
    /\ Running
    /\ size(dyn) < MaxLen
    /\ \E slack \in Slacks(2) :
        /\ dyn' = add_port(dyn, host, port, slack)
        /\ small' = IF Paired THEN add_port(small, host, port, slack) ELSE small
    /\ last' = [op |-> "add_port", x |-> port, at |-> size(dyn)]
    /\ fifo' = fifo \o HostMem(host, tr_port_network(host, port))
    /\ UNCHANGED <<rig, host>>

Drain(d) ==
    /\ Running
    /\ \E ub \in UBs(d) :
        /\ dyn' = drain(dyn, d, ub)
        /\ small' = IF Paired THEN drain(small, d, ub) ELSE small
    /\ last' = [op |-> "drain", n |-> d, had |-> size(dyn)]
    /\ fifo' = Drop(fifo, d)
    /\ UNCHANGED <<rig, host>>

\* Buffer::clear(); a SmallBuffer has no clear() and is given drain(size()).
Clear ==
    /\ Running
    /\ \E ub \in UBs(size(small)) :
        /\ dyn' = Buffer_clear(dyn)
        /\ small' = IF Paired THEN drain(small, size(small), ub) ELSE small
    /\ last' = [op |-> "clear"]
    /\ fifo' = <<>>
    /\ UNCHANGED <<rig, host>>

\* to_buf(tgt, n) into n cells of caller storage.
ToBuf(n) ==
    /\ Running
    /\ \E ub \in UBs(n) :
        /\ dyn' = to_buf(dyn, JunkCells(n), n, ub).self
        /\ small' = IF Paired THEN to_buf(small, JunkCells(n), n, ub).self ELSE small
    /\ last' = [op |-> "to_buf", n |-> n, had |-> size(dyn),
                retB |-> to_buf(dyn, JunkCells(n), n, "clamp").ret,
                tgtB |-> to_buf(dyn, JunkCells(n), n, "clamp").tgt,
                retS |-> to_buf(small, JunkCells(n), n, "clamp").ret,
                tgtS |-> to_buf(small, JunkCells(n), n, "clamp").tgt]
    /\ fifo' = Drop(fifo, n)
    /\ UNCHANGED <<rig, host>>

\* The decoder of width W.
to_uint(self, W, ub) ==
    CASE W = 8 -> to_uint8(self, host, ub)
      [] W = 16 -> to_uint16(self, host, ub)
      [] W = 32 -> to_uint32(self, host, ub)
      [] W = 64 -> to_uint64(self, host, ub)

ToUint(W) ==
    /\ Running
    /\ \E ub \in UBs(W \div 8) :
        /\ dyn' = to_uint(dyn, W, ub).self
        /\ small' = IF Paired THEN to_uint(small, W, ub).self ELSE small
    /\ last' = [op |-> "to_uint", W |-> W, had |-> size(dyn),
                echo |-> IF last.op = "add_uint" /\ last.W = W /\ last.at = 0
                         THEN last.x ELSE <<>>,
                retB |-> to_uint(dyn, W, "clamp").ret,
                retS |-> to_uint(small, W, "clamp").ret]
    /\ fifo' = Drop(fifo, W \div 8)
    /\ UNCHANGED <<rig, host>>

\* What evbuffer_pullup can do to the Buffer as it is.
Pulls ==
    {[moved |-> FALSE, slack |-> 0]}
        \cup {[moved |-> TRUE, slack |-> s] : s \in {t \in Slack : dyn.buf_.data # <<>>}}

\* A faulty variant: observers that use the bytes up.
observe_consuming(self, needle, pull) ==
    [self |-> drain(data_buf(self, pull), size(self), "clamp"),
     ret  |-> [size |-> size(self), empty |-> empty(self), str |-> to_string(self),
               starts |-> starts_with(self, needle)]]

\* The const observers size(), empty(), to_string(), starts_with(): what they
\* return, and the buffer their data() calls leave behind.
observe(self, needle, pull) ==
    [self |-> data_buf(self, pull),
     ret  |-> [size |-> size(self), empty |-> empty(self), str |-> to_string(self),
               starts |-> starts_with(self, needle)]]

\* The other readers call data() too; what that does to a Buffer's free space
\* is what an Observe just before them does, so it is left to this action.
Observe(needle) ==
    /\ Running
    /\ \E pull \in Pulls :
        /\ dyn' = observe(dyn, needle, pull).self
        /\ small' = IF Paired THEN observe(small, needle, pull).self ELSE small
        /\ last' = [op |-> "observe", w |-> needle, pull |-> pull,
                    retB |-> observe(dyn, needle, pull).ret,
                    retS |-> observe(small, needle, pull).ret]
    /\ UNCHANGED <<rig, host, fifo>>

\* What an endpoint does with a write of up to n bytes.
WriteOutcomes(n) ==
    {[fail |-> FALSE, accept |-> a, code |-> 0] : a \in 0..n}
        \cup {[fail |-> TRUE, accept |-> 0, code |-> c] :
                c \in {Platform.EAGAIN, Platform.EPIPE}}

ToSocket(n, io) ==
    /\ Running
    /\ rig = "socket"
    /\ LET r == Buffer_to_socket(dyn, n, io)
       IN  /\ dyn' = r.self
           /\ last' = [op |-> "to_socket", n |-> n, io |-> io, had |-> size(dyn),
                       ret |-> r.ret, error |-> r.error]
           /\ fifo' = Drop(fifo, Len(r.sent))
    /\ UNCHANGED <<rig, host, small>>

\* The endpoints a read can meet.
Endpoints ==
    {[state |-> "open", rx |-> rx, code |-> 0] : rx \in SeqsUpTo(RawBytes, MaxLen)}
        \cup {[state |-> "closed", rx |-> <<>>, code |-> 0]}
        \cup {[state |-> "failing", rx |-> <<>>, code |-> Platform.ECONNRESET]}

\* The n_bytes handed to add_socket: q * 2^32 + b * 2^31 + r.
ReadSizes == {[q |-> q, b |-> b, r |-> r] : q \in 0..1, b \in 0..1, r \in 0..MaxLen}

AddSocket(n, ep) ==
    /\ Running
    /\ rig = "socket"
    /\ size(dyn) + Len(ep.rx) <= MaxLen
    /\ \E slack \in Slack :
        LET r == Buffer_add_socket(dyn, n, ep, slack)
        IN  /\ dyn' = r.self
            /\ last' = [op |-> "add_socket", n |-> n, ep |-> ep, at |-> size(dyn),
                        ret |-> r.ret, error |-> r.error]
            /\ fifo' = fifo \o Take(ep.rx, r.ret)
    /\ UNCHANGED <<rig, host, small>>

\* Buffer::reserve(n): evbuffer_expand by n - size(), a size_t difference.
Buffer_reserve(self, n_bytes, slack) ==
    [self EXCEPT !.buf_ = evbuffer_expand_sz(@, SizeSub(n_bytes, Buffer_size(self)), slack)]

Reserve(n) ==
    /\ Running
    /\ rig = "socket"
    /\ \E slack \in Slack : dyn' = Buffer_reserve(dyn, n, slack)
    /\ last' = [op |-> "reserve", n |-> n, had |-> size(dyn),
                req |-> SizeSub(n, Buffer_size(dyn))]
    /\ UNCHANGED <<rig, host, small, fifo>>

\* The needles starts_with is asked about.
Needles == {<<>>, <<1>>, <<1, 200>>}

Next ==
    \/ \E n \in 0..MaxLen : \E w \in SeqsUpTo(RawBytes, n) : ReserveCommit(n, w, Len(w))
    \/ \E span \in SeqsUpTo(RawBytes, MaxLen) : Add(span)
    \/ \E ch \in RawBytes : PushBack(ch)
    \/ AddUint8(<<200>>)
    \/ AddUint16(<<1, 200>>)
    \/ AddUint32(<<0, 0, 1, 200>>)
    \/ AddUint64(<<200, 1, 0, 0, 0, 0, 0, 1>>)
    \/ AddPort(<<200, 1>>)
    \/ \E d \in 0..(size(dyn) + 1) : Drain(d)
    \/ Clear
    \/ \E n \in 0..(size(dyn) + 1) : ToBuf(n)
    \/ \E W \in {8, 16, 32, 64} : ToUint(W)
    \/ \E needle \in Needles : Observe(needle)

Spec == Init /\ [][Next]_vars

\* The scalar codec on hosts of either byte order.
InitCodec == Start("pair", HostOrders)

NextCodec ==
    \/ \E ch \in RawBytes : PushBack(ch)
    \/ \E x \in Vals8 : AddUint8(x)
    \/ \E x \in Vals16 : AddUint16(x)
    \/ \E x \in Vals32 : AddUint32(x)
    \/ \E x \in Vals64 : AddUint64(x)
    \/ \E port \in Vals16 : AddPort(port)
    \/ \E W \in {8, 16, 32, 64} : ToUint(W)

SpecCodec == InitCodec /\ [][NextCodec]_vars

\* A Buffer on a socket.
InitSocket == Start("socket", {"little"})

NextSocket ==
    \/ \E span \in SeqsUpTo(RawBytes, MaxLen) : Add(span)
    \/ \E d \in 0..(size(dyn) + 1) : Drain(d)
    \/ Clear
    \/ \E n \in 0..(size(dyn) + 1) : \E io \in WriteOutcomes(n) : ToSocket(n, io)
    \/ \E n \in ReadSizes : \E ep \in Endpoints : AddSocket(n, ep)
    \/ \E n \in 0..MaxLen : Reserve(n)

SpecSocket == InitSocket /\ [][NextSocket]_vars

\* A two-phase write that commits more than it asked for, up to the length
\* reserve_space returned (to both buffers).
ReserveCommitGranted(n, w) ==
    /\ Running
    /\ size(dyn) + Len(w) <= MaxLen
    /\ n < Len(w)
    /\ \E slack \in Slacks(n) :
        /\ Len(w) <= reserve_space(dyn, n, slack).len
        /\ Paired => Len(w) <= reserve_space(small, n, slack).len
        /\ dyn' = TwoPhase(dyn, n, w, Len(w), slack)
        /\ small' = IF Paired THEN TwoPhase(small, n, w, Len(w), slack) ELSE small
    /\ last' = [op |-> "reserve_commit_granted", n |-> n, w |-> w, k |-> Len(w),
                at |-> size(dyn)]
    /\ fifo' = fifo \o w
    /\ UNCHANGED <<rig, host>>

NextGranted ==
    \/ Next
    \/ \E n \in 0..MaxLen : \E w \in SeqsUpTo(RawBytes, MaxLen) : ReserveCommitGranted(n, w)

SpecGranted == Init /\ [][NextGranted]_vars

\* reserve_space(n) as a call of its own, on both buffers; the lengths
\* returned are kept for the commit that follows.
ReserveSpace(n) ==
    /\ Running
    /\ size(dyn) + n <= MaxLen
    /\ \E slack \in Slacks(n) :
        /\ dyn' = reserve_space(dyn, n, slack).self
        /\ small' = reserve_space(small, n, slack).self
        /\ last' = [op |-> "reserve_space", n |-> n, at |-> size(dyn),
                    lenB |-> reserve_space(dyn, n, slack).len,
                    lenS |-> reserve_space(small, n, slack).len]
    /\ UNCHANGED <<rig, host, fifo>>

\* Stores of w through the pointers just returned and commit_space(Len(w)),
\* within the length each reserve_space returned.
CommitSpace(w) ==
    /\ Running
    /\ last.op = "reserve_space"
    /\ Len(w) <= last.lenB /\ Len(w) <= last.lenS
    /\ size(dyn) + Len(w) <= MaxLen
    /\ dyn' = commit_space(store(dyn, w), Len(w), 0)
    /\ small' = commit_space(store(small, w), Len(w), 0)
    /\ last' = [op |-> "commit_space", n |-> last.n, k |-> Len(w), w |-> w,
                at |-> size(dyn), lenB |-> last.lenB, lenS |-> last.lenS]
    /\ fifo' = fifo \o w
    /\ UNCHANGED <<rig, host>>

\* A SmallBuffer<N> and a Buffer under reserve_space, commit_space and drain.
NextCalls ==
    \/ \E n \in 0..MaxLen : ReserveSpace(n)
    \/ \E w \in SeqsUpTo(RawBytes, MaxLen) : CommitSpace(w)
    \/ \E d \in 0..(size(dyn) + 1) : Drain(d)

SpecCalls == Init /\ [][NextCalls]_vars

\* commit_space(k) with k above the length the last reserve_space returned,
\* or with no reservation outstanding; nothing was stored past what a
\* reservation covered.
CommitSpaceMisuse(k) ==
    /\ Running
    /\ size(dyn) + k <= MaxLen
    /\ IF last.op = "reserve_space" THEN k > last.lenB /\ k > last.lenS ELSE TRUE
    /\ \E slack \in Slacks(k) :
        /\ dyn' = commit_space(dyn, k, slack)
        /\ small' = commit_space(small, k, slack)
    /\ last' = [op |-> "commit_misuse", k |-> k, at |-> size(dyn),
                reserved |-> last.op = "reserve_space"]
    /\ UNCHANGED <<rig, host, fifo>>

NextMisuse ==
    \/ NextCalls
    \/ \E k \in 1..MaxLen : CommitSpaceMisuse(k)

SpecMisuse == Init /\ [][NextMisuse]_vars

\* A caller's loop over a Buffer constructed from the bytes B:
\*     while (!buf.empty() && !error) { r = buf.to_socket(fd, buf.size(), &error); drain(r); }
\* with the drain (loop.drains) or without it.  last holds the loop's locals
\* and what the endpoint has received (wire).
InitRetry ==
    /\ rig = "retry"
    /\ host = "little"
    /\ \E B \in SeqsUpTo(RawBytes, MaxLen + 1) : \E slack \in Slack : \E drains \in BOOLEAN :
        /\ dyn = add(Buffer_new, B, slack)
        /\ fifo = B
        /\ last = [op |-> "loop", B |-> B, drains |-> drains, wire |-> <<>>, r |-> 0,
                   error |-> NoError, shorts |-> 0,
                   pc |-> IF B = <<>> THEN "done" ELSE "send"]
    /\ small = SmallBuffer_new(1)

\* r = to_socket(fd, size(), &error), and the loop's tests that follow it
\* when there is no drain in between.
RetrySend(io) ==
    /\ rig = "retry" /\ last.pc = "send"
    /\ LET r == Buffer_to_socket(dyn, size(dyn), io)
       IN  /\ dyn' = r.self
           /\ fifo' = Drop(fifo, Len(r.sent))
           /\ last' = [last EXCEPT
                  !.wire = @ \o r.sent, !.r = r.ret, !.error = r.error,
                  !.shorts = IF 0 < r.ret /\ r.ret < size(dyn) THEN @ + 1 ELSE @,
                  !.pc = IF r.error.set THEN "failed"
                         ELSE IF last.drains THEN "drain"
                         ELSE IF empty(r.self) THEN "done" ELSE "send"]
    /\ UNCHANGED <<rig, host, small>>

\* drain(r), and the loop's tests.
RetryDrain ==
    /\ rig = "retry" /\ last.pc = "drain"
    /\ dyn' = Buffer_drain(dyn, last.r)
    /\ fifo' = Drop(fifo, last.r)
    /\ last' = [last EXCEPT !.pc = IF empty(Buffer_drain(dyn, last.r)) THEN "done" ELSE "send"]
    /\ UNCHANGED <<rig, host, small>>

\* An attempt the endpoint takes at least one byte of.
RetrySendSome == \E io \in {o \in WriteOutcomes(size(dyn)) : ~o.fail /\ o.accept > 0} : RetrySend(io)

NextRetry ==
    \/ \E io \in WriteOutcomes(size(dyn)) : RetrySend(io)
    \/ RetryDrain

\* The loop runs on, and the endpoint takes a byte or more time and again.
SpecRetry ==
    InitRetry /\ [][NextRetry]_vars /\ WF_vars(RetryDrain) /\ SF_vars(RetrySendSome)

\* ------------------------------------------------------------------ claims

\* The buffers the calls go to.
Driven == IF Paired THEN {dyn, small} ELSE {dyn}

\* C1: after any writes (with commit_space(k), k no more than requested) and
\* drains, the first size() bytes that pullup() / data() expose are the
\* committed bytes in commit order less the drained prefix, for both kinds.
C1_ContentIsFifo ==
    /\ Take(Buffer_pullup(dyn).ptr, Buffer_pullup(dyn).len) = fifo
    /\ Buffer_pullup(dyn).len = Len(fifo)
    /\ Content(dyn) = fifo
    /\ Content(small) = fifo
    /\ size(small) = Len(fifo)

\* C1's case: bytes were written, the SmallBuffer has spilled, part was drained.
C1_Witness ==
    /\ last.op = "drain" /\ last.n > 0
    /\ fifo # <<>>
    /\ capacity(small.buf_) > small.N

\* The calls that write, and the bytes each commits.
IsWrite(l) == l.op \in {"reserve_commit", "add", "push_back"}
Committed(l) == IF l.op = "reserve_commit" THEN Take(l.w, l.k) ELSE l.w

\* C2: reserve_space(n), stores, commit_space(k) with k <= n grows size() by
\* exactly k, keeps the bytes [0, old_size) and makes [old_size, old_size + k)
\* the k bytes stored; the write that follows lands right behind them.
C2_TwoPhaseAppends ==
    [][IsWrite(last') =>
        /\ Content(dyn') = Content(dyn) \o Committed(last')
        /\ size(dyn') = size(dyn) + Len(Committed(last'))
        /\ Content(small') = Content(small) \o Committed(last')
        /\ size(small') = size(small) + Len(Committed(last'))]_vars

\* C2's case: a reservation used in part, behind bytes already there.
C2_Witness ==
    /\ last.op = "reserve_commit"
    /\ 0 < last.k /\ last.k < last.n
    /\ last.at > 0
    /\ size(small) = last.at + last.k

\* C3: drain(d) takes exactly min(d, size()) bytes off the front, keeps the
\* rest in order and raises nothing; d >= size() leaves the buffer empty.
C3_DrainClamps ==
    [][last'.op = "drain" =>
        /\ size(dyn') = size(dyn) - Min(last'.n, size(dyn))
        /\ Content(dyn') = Drop(Content(dyn), last'.n)
        /\ size(small') = size(small) - Min(last'.n, size(small))
        /\ Content(small') = Drop(Content(small), last'.n)
        /\ ~small'.halted
        /\ last'.n >= size(dyn) => empty(dyn') /\ empty(small')]_vars

\* C3's case: a drain of more than a non-empty buffer held.
C3_Witness ==
    /\ last.op = "drain"
    /\ last.had > 0 /\ last.n > last.had
    /\ empty(dyn) /\ empty(small)

\* C8: once the bytes committed to a SmallBuffer<N> exceed N, every write has
\* gone through, size() is the full total and all bytes, those committed
\* before the move to the heap and those after, read back in order.
C8_SpillKeepsBytes ==
    capacity(small.buf_) > small.N =>
        /\ ~small.halted
        /\ size(small) = Len(fifo)
        /\ \A i \in 1..Len(fifo) : data(small)[i] = fifo[i]

\* C8's case: N + 1 bytes, written one at a time, are in a spilled buffer.
C8_Witness ==
    /\ last.op = "push_back"
    /\ size(small) = small.N + 1
    /\ capacity(small.buf_) > small.N
    /\ Len(fifo) = small.N + 1

\* The calls that return something.
Returns(l) == l.op \in {"to_buf", "to_uint", "observe"}

\* C10: the same reader / writer calls on a Buffer and on a SmallBuffer<N>
\* return the same values and leave the same size() and content, spilled or
\* not.
C10_SameOnBoth ==
    /\ size(dyn) = size(small)
    /\ empty(dyn) = empty(small)
    /\ to_string(dyn) = to_string(small)
    /\ Returns(last) => last.retB = last.retS
    /\ last.op = "to_buf" => last.tgtB = last.tgtS

\* C10's case: a decoder has returned a value read from a spilled SmallBuffer.
C10_Witness ==
    /\ last.op = "to_uint" /\ last.had >= 2 /\ last.W = 16
    /\ capacity(small.buf_) > small.N
    /\ ~empty(small)

\* C4, as claimed: to_socket leaves size() and the content as they were,
\* whatever the endpoint did with the write.
C4_ToSocketKeepsBytes ==
    [][last'.op = "to_socket" =>
        /\ size(dyn') = size(dyn)
        /\ Content(dyn') = Content(dyn)]_vars

\* C4, amended: to_socket drains exactly the bytes it reports as written, off
\* the front; it reports no more than min(n, size()), and a call that reports
\* 0 (nothing written, or an error) leaves size() and the content as they were.
C4_ToSocketDrainsWritten ==
    [][last'.op = "to_socket" =>
        /\ last'.ret <= Min(last'.n, size(dyn))
        /\ size(dyn') = size(dyn) - last'.ret
        /\ Content(dyn') = Drop(Content(dyn), last'.ret)
        /\ last'.error.set => last'.ret = 0 /\ Content(dyn') = Content(dyn)]_vars

\* C4's case: a short write, with bytes left in the buffer.
C4_Witness ==
    /\ last.op = "to_socket"
    /\ 0 < last.ret /\ last.ret < last.n /\ last.ret < last.had
    /\ size(dyn) = last.had - last.ret

\* C5: add_socket returns 0 with the connection-closed error on an orderly
\* close and 0 with the platform's code on a failed transfer; to_socket
\* returns 0 with an error on failure; a transfer of fewer bytes than asked
\* for returns that count, 0 < count <= n, and no error; an error is never
\* set together with a count other than 0.
C5_SocketOutcomes ==
    /\ last.op = "add_socket" =>
        /\ last.ep.state = "closed" =>
            last.ret = 0 /\ last.error = [set |-> TRUE, code |-> Platform.ENOTCONN]
        /\ last.ep.state = "failing" =>
            last.ret = 0 /\ last.error = [set |-> TRUE, code |-> last.ep.code]
        /\ (last.ep.state = "open" /\ last.ep.rx = <<>> /\ NarrowToInt(last.n) # 0) =>
            last.ret = 0 /\ last.error = [set |-> TRUE, code |-> Platform.EAGAIN]
        /\ (last.ep.state = "open" /\ last.ep.rx # <<>> /\ NarrowToInt(last.n) # 0) =>
            /\ ~last.error.set
            /\ 0 < last.ret /\ last.ret <= Len(last.ep.rx)
            /\ NarrowToInt(last.n) > 0 => last.ret = Min(NarrowToInt(last.n), Len(last.ep.rx))
            /\ size(dyn) = last.at + last.ret
        /\ last.error.set => last.ret = 0
    /\ last.op = "to_socket" =>
        /\ last.io.fail => last.ret = 0 /\ last.error.set
        /\ (last.io.fail /\ Min(last.n, last.had) > 0) => last.error.code = last.io.code
        /\ (~last.io.fail /\ Min(last.n, last.had) > 0) =>
            /\ ~last.error.set
            /\ last.ret = Min(last.io.accept, Min(last.n, last.had))
        /\ last.error.set => last.ret = 0

\* C5's case: a read that brought fewer bytes than asked for.
C5_Witness ==
    /\ last.op = "add_socket"
    /\ last.n.q = 0 /\ last.n.b = 0
    /\ 0 < last.ret /\ last.ret < last.n.r
    /\ ~last.error.set

\* C6: add_uintW(x) into an empty buffer, then to_uintW() at once, returns x
\* and leaves the buffer empty, for W = 8, 16, 32, 64 and both kinds.
C6_ScalarRoundTrip ==
    (last.op = "to_uint" /\ last.echo # <<>>) =>
        /\ last.retB = last.echo
        /\ last.retS = last.echo
        /\ size(dyn) = 0
        /\ size(small) = 0

\* C6's case: a 64-bit value has made the round trip on a little-endian host.
C6_Witness ==
    /\ last.op = "to_uint" /\ last.W = 64
    /\ last.echo = <<200, 1, 0, 0, 0, 0, 0, 1>>
    /\ host = "little"

\* Whether the digits stand for a number below 2^31.
Below2p31(x) ==
    \A i \in 1..Len(x) :
        /\ i < Len(x) - 3 => x[i] = 0
        /\ i = Len(x) - 3 => x[i] < 128

\* What the call made last appended to a buffer.
Appended(self) == Drop(Content(self), last.at)

\* C7: add_uintW(x) appends exactly W/8 bytes, byte i being
\* (x >> (W - 8*(i+1))) mod 256, so add_uint32(456) appends 0, 0, 1, 200;
\* add_uint8 appends the byte x; add_port appends the port's two bytes, the
\* most significant first.
C7_BigEndianOnWire ==
    /\ last.op = "add_uint" =>
        \A self \in Driven :
            /\ size(self) = last.at + last.W \div 8
            /\ Appended(self) = last.x
            /\ Below2p31(last.x) =>
                \A i \in 0..(last.W \div 8 - 1) :
                    Appended(self)[i + 1] = ShiftByte(NumOf(last.x), last.W, i)
            /\ (last.W = 32 /\ NumOf(Drop(last.x, 1)) = 456 /\ last.x[1] = 0) =>
                Appended(self) = <<0, 0, 1, 200>>
    /\ last.op = "add_port" =>
        \A self \in Driven :
            /\ size(self) = last.at + 2
            /\ Appended(self) = <<NumOf(last.x) \div 256, NumOf(last.x) % 256>>

\* C7's case: add_uint32(456) has appended to a non-empty buffer on a
\* little-endian host.
C7_Witness ==
    /\ last.op = "add_uint" /\ last.W = 32 /\ last.x = <<0, 0, 1, 200>>
    /\ last.at > 0
    /\ host = "little"

\* C9, as claimed: the bytes of a two-phase write that commits up to the
\* length reserve_space returned are part of the content and are read back
\* in order after any later call.
C9_GrantedBytesKept ==
    \A self \in Driven :
        /\ self.kind = "SmallBuffer" => ~self.halted
        /\ size(self) = Len(fifo)
        /\ \A i \in 1..Len(fifo) : data(self)[i] = fifo[i]

\* C11: to_buf(dst, n) copies exactly c = min(n, size()) bytes, the first c
\* bytes of the content in order, into dst (and touches nothing behind them),
\* drains exactly those c bytes and returns c, on both buffer kinds.
C11_ToBufCopiesAndDrains ==
    [][last'.op = "to_buf" =>
        LET c == Min(last'.n, size(dyn))
        IN  /\ last'.retB = c /\ last'.retS = c
            /\ last'.tgtB = Take(Content(dyn), c) \o JunkCells(last'.n - c)
            /\ last'.tgtS = Take(Content(small), c) \o JunkCells(last'.n - c)
            /\ Content(dyn') = Drop(Content(dyn), c)
            /\ Content(small') = Drop(Content(small), c)
            /\ size(dyn') = size(dyn) - c
            /\ size(small') = size(small) - c
            /\ ~small'.halted]_vars

\* C11's case: a to_buf of part of the content of a spilled SmallBuffer.
C11_Witness ==
    /\ last.op = "to_buf"
    /\ 0 < last.n /\ last.n < last.had
    /\ last.retS = last.n
    /\ capacity(small.buf_) > small.N
    /\ size(small) = last.had - last.n

\* C12: to_string() returns exactly the size() bytes of the content, in
\* order, and leaves size() and the content as they were: a to_string, a
\* to_buf or a decoder that follows sees the same bytes, on both kinds.
C12_ToStringCopiesOnly ==
    [][last'.op = "observe" =>
        /\ last'.retB.str = Content(dyn) /\ Len(last'.retB.str) = size(dyn)
        /\ last'.retS.str = Content(small) /\ Len(last'.retS.str) = size(small)
        /\ last'.retB.str = fifo
        /\ size(dyn') = size(dyn) /\ Content(dyn') = Content(dyn)
        /\ size(small') = size(small) /\ Content(small') = Content(small)
        /\ \A self \in {dyn', small'} :
            /\ to_string(self) = last'.retB.str
            /\ to_buf(self, JunkCells(size(self)), size(self), "clamp").tgt = last'.retB.str
            /\ to_uint(self, 16, "clamp").ret = to_uint(dyn, 16, "clamp").ret]_vars

\* C12's case: to_string on content that evbuffer_pullup had to move.
C12_Witness ==
    /\ last.op = "observe"
    /\ last.retB.str = <<1, 200>>
    /\ last.retS.str = <<1, 200>>
    /\ last.pull.moved
    /\ capacity(small.buf_) > small.N
    /\ to_string(dyn) = <<1, 200>>

\* C13: in every state a SmallBuffer<N> gets into by reserve_space,
\* commit_space of up to the length reserve_space returned, and drain,
\* committed_size_ (what size() reports) is at most the capacity of buf_.
C13_CommittedWithinCapacity ==
    /\ size(small) <= capacity(small.buf_)
    /\ small.committed_size_ >= 0
    /\ capacity(small.buf_) >= small.N

\* C13's case: a commit of more than was asked for has filled the capacity.
C13_Witness ==
    /\ last.op = "commit_space"
    /\ last.k > last.n
    /\ last.at > 0
    /\ size(small) = capacity(small.buf_)

\* C14, as claimed: a commit_space(k) with k above the length the last
\* reserve_space returned, or without a reservation, is fatal on both kinds:
\* no execution gets past it into a state where size() has grown by k.
C14_CommitMisuseFatal ==
    last.op = "commit_misuse" =>
        \A self \in Driven : size(self) # last.at + last.k

\* C15: to_uintW() on a buffer of m < W/8 bytes raises nothing, drains the m
\* bytes and returns the value of the W/8-byte big-endian field made of the
\* m bytes followed by zeros: to_uint16 on the one byte 200 returns 200 * 256,
\* and a decoder on an empty buffer returns 0.
C15_ShortDecodeZeroPads ==
    [][(last'.op = "to_uint" /\ size(dyn) < last'.W \div 8) =>
        LET m == size(dyn)
            pad == ZeroCells(last'.W \div 8 - m)
        IN  /\ last'.retB = Content(dyn) \o pad
            /\ last'.retS = Content(small) \o pad
            /\ size(dyn') = 0 /\ size(small') = 0
            /\ ~small'.halted
            /\ m = 0 => last'.retB = ZeroCells(last'.W \div 8)
            /\ (last'.W = 16 /\ Content(dyn) = <<200>>) =>
                NumOf(last'.retB) = 200 * 256 /\ NumOf(last'.retS) = 200 * 256]_vars

\* C15's case: to_uint32 on a single byte, on a little-endian host.
C15_Witness ==
    /\ last.op = "to_uint" /\ last.W = 32 /\ last.had = 1
    /\ host = "little"
    /\ last.retS = <<200, 0, 0, 0>>
    /\ size(small) = 0

\* C16, as claimed: the loop that calls drain(r) after every to_socket ends
\* with the endpoint holding exactly B, and at every attempt the buffer holds
\* exactly the part of B not sent yet.
C16_RetryWithDrainDelivers ==
    (last.op = "loop" /\ last.drains) =>
        /\ last.pc = "send" => last.wire \o Content(dyn) = last.B
        /\ last.pc = "done" => last.wire = last.B

\* C16, amended: the loop without the drain (to_socket has drained what it
\* wrote) keeps wire \o content = B at every attempt, and, with an endpoint
\* that takes a byte or more time and again, ends: with the buffer empty and
\* the endpoint holding exactly B, or with an error set.
C16_RetryWithoutDrainDelivers ==
    /\ []((last.op = "loop" /\ ~last.drains) =>
            /\ last.wire \o Content(dyn) = last.B
            /\ last.pc = "done" => empty(dyn) /\ last.wire = last.B
            /\ last.pc = "failed" => last.error.set)
    /\ ((last.op = "loop" /\ ~last.drains) ~> (last.pc \in {"done", "failed"}))

\* C16's case: B went out in more than one attempt and the loop is through.
C16_Witness ==
    /\ last.op = "loop" /\ ~last.drains
    /\ last.pc = "done" /\ last.shorts >= 2
    /\ Len(last.B) = 3 /\ last.wire = last.B
    /\ empty(dyn)

\* C17, as claimed: reserve(n) asks the evbuffer for max(0, n - size())
\* further bytes, for n below size() too, and leaves size() and the content
\* as they were.
C17_ReserveNeverWraps ==
    last.op = "reserve" =>
        /\ last.req = SizeT(Max(0, last.n - last.had))
        /\ size(dyn) = last.had
        /\ Content(dyn) = fifo

\* C18, as claimed: under reserve_space, commit_space of up to the length
\* reserve_space returned, and drain, committed_size_ never exceeds
\* buf_.size(), so every committed byte is an element of the vector.
C18_CommittedWithinVector ==
    small.committed_size_ <= small.buf_.size

\* C19, as claimed: add_socket sets the connection-closed error (ENOTCONN)
\* only when the endpoint has closed; on an open endpoint it never does,
\* whatever n_bytes is (0, or a value that narrows to int 0 or below);
\* it returns 0 exactly when it sets an error, and size() grows by what it
\* returns.
C19_ClosedOnlyOnClose ==
    last.op = "add_socket" =>
        /\ (last.error.set /\ last.error.code = Platform.ENOTCONN) => last.ep.state = "closed"
        /\ last.ret = 0 <=> last.error.set
        /\ size(dyn) = last.at + last.ret

====
